---- MODULE Spec2Model ----
(***************************************************************************)
(* Shift claim and profit analytics: Load_shifts_final.py builds the clean *)
(* cohort df_final from the offer-event table, and the scripts under       *)
(* plots/ derive their aggregates from that cohort.                        *)
(*                                                                         *)
(* A cell of the table is NULL (pandas NaN / NaT) or Some(v).  Timestamps  *)
(* are whole minutes, rates and durations are whole numbers.               *)
(***************************************************************************)
EXTENDS Integers, Sequences, FiniteSets, TLC

VARIABLES
    df,                  \* the event table after lines 4-12, a sequence of rows
    columns,             \* the optional columns the input table has
    pc,                  \* position of the script
    claimed_df_sorted,   \* row numbers of df's claimed rows, sorted by CLAIMED_AT
    first_claims,        \* SHIFT_ID -> first-claim row (groupby.first)
    stats,               \* the counters printed by lines 14-47
    excluded_shift_ids,  \* line 63
    df_final,            \* the clean cohort
    final_columns,       \* the columns df_final is left with (lines 91-98)
    first_claims_final,  \* lines 81-88
    rerun,               \* outcome of running the script on its own output
    report               \* outcome of the plots/ script that ran

vars == <<df, columns, pc, claimed_df_sorted, first_claims, stats,
          excluded_shift_ids, df_final, final_columns, first_claims_final,
          rerun, report>>

-----------------------------------------------------------------------------
(* Bounds *)

MaxEvents == 2

MaxReportEvents == 3

ShiftIds == {1, 2}

-----------------------------------------------------------------------------
(* Cells *)

NULL == <<>>

Some(v) == <<v>>

notna(x) == x # NULL

isna(x) == x = NULL

Val(x) == x[1]

\* A cell of the CSV whose text is neither a timestamp nor a number.  read_csv
\* keeps it as a string: it is not null.
Unparsable == <<0, 0>>

unparsable(x) == Len(x) = 2

OptionalColumns == {"IS_VERIFIED", "IS_NCNS"}

NullableColumns ==
    {"CLAIMED_AT", "CANCELED_AT", "IS_VERIFIED", "IS_NCNS", "PAY_RATE",
     "CHARGE_RATE", "DURATION", "SHIFT_START_AT", "OFFER_VIEWED_AT"}

\* One row of df after line 12: the CSV's cells and the CLAIMED column.
Row(sid, cl, ca, v, n, p, c, d, st, ov) ==
    [SHIFT_ID |-> sid, CLAIMED_AT |-> cl, CANCELED_AT |-> ca, IS_VERIFIED |-> v,
     IS_NCNS |-> n, PAY_RATE |-> p, CHARGE_RATE |-> c, DURATION |-> d,
     SHIFT_START_AT |-> st, OFFER_VIEWED_AT |-> ov, CLAIMED |-> notna(cl)]

\* One row of the CSV as read_csv returns it on line 4.
RawRow(sid, cl, ca, v, n, p, c, d, st, ov) ==
    [SHIFT_ID |-> sid, CLAIMED_AT |-> cl, CANCELED_AT |-> ca, IS_VERIFIED |-> v,
     IS_NCNS |-> n, PAY_RATE |-> p, CHARGE_RATE |-> c, DURATION |-> d,
     SHIFT_START_AT |-> st, OFFER_VIEWED_AT |-> ov]

\* Lines 8-9: pd.to_datetime with the default errors='raise'.
to_datetime_raises(d) ==
    \E i \in DOMAIN d :
        unparsable(d[i].CLAIMED_AT) \/ unparsable(d[i].CANCELED_AT)

\* Line 12
with_claimed(r) == r @@ [CLAIMED |-> notna(r.CLAIMED_AT)]

-----------------------------------------------------------------------------
(* Sequence helpers *)

Range(s) == {s[i] : i \in DOMAIN s}

\* The rows of d whose number is in keep, in d's order (boolean-mask indexing).
RECURSIVE Mask(_, _, _)
Mask(d, keep, i) ==
    IF i > Len(d) THEN <<>>
    ELSE (IF i \in keep THEN <<d[i]>> ELSE <<>>) \o Mask(d, keep, i + 1)

unique(d) == {d[i].SHIFT_ID : i \in DOMAIN d}

nunique(d) == Cardinality(unique(d))

-----------------------------------------------------------------------------
(* Claim Resolver: Load_shifts_final.py lines 18-47 *)

claimed_rows(d) == {i \in DOMAIN d : d[i].CLAIMED}

\* sort_values(by='CLAIMED_AT') with the default kind='quicksort': ascending by
\* key, the order of rows with equal keys is not specified.
SortMutUnsorted(d, S) ==
    {s \in [1..Cardinality(S) -> S] :
        \A i, j \in DOMAIN s : i # j => s[i] # s[j]}

sort_values(d, S) ==
    {s \in [1..Cardinality(S) -> S] :
        /\ \A i, j \in DOMAIN s : i # j => s[i] # s[j]
        /\ \A i, j \in DOMAIN s :
              i < j => Val(d[s[i]].CLAIMED_AT) <= Val(d[s[j]].CLAIMED_AT)}

\* GroupBy.first() of one column: the first non-null cell of the group, taken
\* in the order of the sorted frame; NULL when the group has none.
RECURSIVE first(_, _, _, _, _)
first(d, order, sid, col, k) ==
    IF k > Len(order) THEN NULL
    ELSE IF d[order[k]].SHIFT_ID = sid /\ notna(d[order[k]][col])
         THEN d[order[k]][col]
         ELSE first(d, order, sid, col, k + 1)

FillVerified_MutNoDefault(cols, v) == IF isna(v) THEN FALSE ELSE Val(v)

\* Lines 28-32: fillna(False).astype(bool) when the column exists, else True.
FillVerified(cols, v) ==
    IF "IS_VERIFIED" \in cols
    THEN (IF isna(v) THEN FALSE ELSE Val(v))
    ELSE TRUE

\* Lines 24-32: one row per claimed SHIFT_ID, every column aggregated by first().
groupby_first(d, cols, order) ==
    [sid \in {d[i].SHIFT_ID : i \in Range(order)} |->
        [c \in NullableColumns \ {"IS_VERIFIED"} |-> first(d, order, sid, c, 1)]
        @@ [IS_VERIFIED |->
               FillVerified(cols, first(d, order, sid, "IS_VERIFIED", 1))]]

claimed_shift_ids_MutRows(d) == claimed_rows(d)

\* Line 39
claimed_shift_ids(d) == {d[i].SHIFT_ID : i \in claimed_rows(d)}

Stats(d, fc) ==
    [total_shifts |-> nunique(d),
     first_claimers_total |-> Cardinality({d[i].SHIFT_ID : i \in claimed_rows(d)}),
     num_first_claims_worked |->
         Cardinality({s \in DOMAIN fc : fc[s].IS_VERIFIED}),
     num_first_claims_not_worked |->
         Cardinality({s \in DOMAIN fc : ~fc[s].IS_VERIFIED}),
     num_never_claimed |-> nunique(d) - Cardinality(claimed_shift_ids(d))]

-----------------------------------------------------------------------------
(* Exclusion Filter: Load_shifts_final.py lines 51-70 *)

\* Line 54
canceled_shift_ids(d) == {d[i].SHIFT_ID : i \in {j \in DOMAIN d : notna(d[j].CANCELED_AT)}}

ncns_MutNone(d, cols) == {}

\* Line 57
ncns_shift_ids(d, cols) ==
    IF "IS_NCNS" \in cols
    THEN {d[i].SHIFT_ID : i \in {j \in DOMAIN d : d[j].IS_NCNS = Some(TRUE)}}
    ELSE {}

\* Line 60
first_claims_not_worked_shift_ids(fc) == {s \in DOMAIN fc : ~fc[s].IS_VERIFIED}

excluded_MutNoNcns(d, cols, fc) ==
    canceled_shift_ids(d) \cup first_claims_not_worked_shift_ids(fc)

\* Line 63
excluded(d, cols, fc) ==
    (canceled_shift_ids(d) \cup ncns_shift_ids(d, cols))
        \cup first_claims_not_worked_shift_ids(fc)

isin_MutRowLevel(d, cols, ex) ==
    {i \in DOMAIN d : isna(d[i].CANCELED_AT) /\ d[i].IS_NCNS # Some(TRUE)}

\* Line 66: the rows whose SHIFT_ID is not excluded.
isin_not(d, cols, ex) == {i \in DOMAIN d : d[i].SHIFT_ID \notin ex}

\* Lines 66-70: shift-level filter, then the row-level IS_NCNS re-check.
filter(d, cols, ex) ==
    LET kept == Mask(d, isin_not(d, cols, ex), 1)
    IN  IF "IS_NCNS" \in cols
        THEN Mask(kept, {i \in DOMAIN kept : kept[i].IS_NCNS # Some(TRUE)}, 1)
        ELSE kept

-----------------------------------------------------------------------------
(* Output schema: Load_shifts_final.py lines 72-98 *)

\* Line 73: SHIFT_START_AT + DURATION minutes; NaT when either cell is missing.
shift_end_at(r) ==
    IF notna(r.SHIFT_START_AT) /\ notna(r.DURATION)
    THEN Some(Val(r.SHIFT_START_AT) + Val(r.DURATION))
    ELSE NULL

\* Line 73: pd.to_datetime and pd.to_timedelta with the default errors='raise'
\* raise on a SHIFT_START_AT or DURATION of fin that does not parse.  A
\* DURATION column that holds text anywhere in d is a column of strings, on
\* which to_timedelta with a unit raises or not depending on the pandas
\* release.  The set of the outcomes: TRUE for a ValueError.
line_73_raises(d, fin) ==
    LET certain == \E i \in DOMAIN fin :
                       unparsable(fin[i].SHIFT_START_AT) \/ unparsable(fin[i].DURATION)
        text == fin # <<>> /\ \E i \in DOMAIN d : unparsable(d[i].DURATION)
    IN  {b \in BOOLEAN : (certain => b) /\ (b => (certain \/ text))}

\* Lines 73-78, 91, 98: the row with SHIFT_END_AT added and the IS_VERIFIED and
\* IS_NCNS cells gone.
final_row(r) ==
    [r EXCEPT !.IS_VERIFIED = NULL, !.IS_NCNS = NULL]
        @@ [SHIFT_END_AT |-> shift_end_at(r)]

input_columns(cols) ==
    {"SHIFT_ID", "CLAIMED"} \cup (NullableColumns \ (OptionalColumns \ cols))

\* Lines 91-98: drop IS_VERIFIED, drop every column with no non-null cell
\* (dropna(axis=1, how='all'): of a frame without rows that is every column),
\* drop IS_NCNS.
dropna_columns(d, cols) ==
    {c \in ((input_columns(cols) \cup {"SHIFT_END_AT"}) \ {"IS_VERIFIED"}) :
        \E i \in DOMAIN d :
            IF c \in {"SHIFT_ID", "CLAIMED"} THEN TRUE
            ELSE IF c = "SHIFT_END_AT" THEN notna(shift_end_at(d[i]))
            ELSE notna(d[i][c])} \ {"IS_NCNS"}

\* Lines 100-113
FinalStats(d, fcf, orig) ==
    [final_shift_ids |-> unique(d),
     num_first_claims_worked_final |->
         Cardinality({s \in DOMAIN fcf : fcf[s].IS_VERIFIED}),
     num_first_claims_not_worked_final |->
         Cardinality({s \in DOMAIN fcf : ~fcf[s].IS_VERIFIED}),
     never_claimed_in_final |-> unique(d) \ claimed_shift_ids(orig)]

-----------------------------------------------------------------------------
(* The script run on the table it produced, shifts_final.csv *)

\* Lines 8-9 index CLAIMED_AT and CANCELED_AT: a missing column is a KeyError.
\* Otherwise the filter of lines 51-70 runs on a table that has neither
\* IS_VERIFIED (every first claim worked) nor IS_NCNS.
Rerun_result(d, fcols) ==
    IF "CLAIMED_AT" \notin fcols THEN [status |-> "KeyError", at |-> "CLAIMED_AT"]
    ELSE IF "CANCELED_AT" \notin fcols
         THEN [status |-> "KeyError", at |-> "CANCELED_AT"]
         ELSE [status |-> "ok",
               df_final |-> filter(d, {}, canceled_shift_ids(d))]

-----------------------------------------------------------------------------
(* plots/: what the report scripts share *)

\* to_csv writes the boolean CLAIMED as True / False.
to_csv_bool(b) == IF b THEN "True" ELSE "False"

\* str.lower() of such a cell.
lower(s) == IF s = "True" THEN "true" ELSE IF s = "False" THEN "false" ELSE s

\* df["CLAIMED"].astype(str).str.lower() == "true"  (1a lines 23-24)
is_true(r) == lower(to_csv_bool(r.CLAIMED)) = "true"

claimed_part(d) == Mask(d, {i \in DOMAIN d : is_true(d[i])}, 1)

unclaimed_part(d) == Mask(d, {i \in DOMAIN d : ~is_true(d[i])}, 1)

Max(S) == CHOOSE x \in S : \A y \in S : y <= x

Min(S) == CHOOSE x \in S : \A y \in S : x <= y

group(u, sid) == {i \in DOMAIN u : u[i].SHIFT_ID = sid}

\* groupby("SHIFT_ID")[col].max(): the largest non-null cell of each group.
groupby_max(u, col) ==
    [sid \in unique(u) |->
        LET vals == {Val(u[i][col]) : i \in {j \in group(u, sid) : notna(u[j][col])}}
        IN  IF vals = {} THEN NULL ELSE Some(Max(vals))]

\* drop_duplicates("SHIFT_ID", keep="first"): the first row of each shift.
drop_duplicates(u) == [sid \in unique(u) |-> u[Min(group(u, sid))]]

\* Sum of a column of cells, NaN skipped (Series.sum).
RECURSIVE sum_seq(_, _)
sum_seq(cells, i) ==
    IF i > Len(cells) THEN 0
    ELSE (IF notna(cells[i]) THEN Val(cells[i]) ELSE 0) + sum_seq(cells, i + 1)

RECURSIVE sum_by(_, _)
sum_by(f, S) ==
    IF S = {} THEN 0
    ELSE LET x == Min(S)
         IN  (IF notna(f[x]) THEN Val(f[x]) ELSE 0) + sum_by(f, S \ {x})

\* (CHARGE_RATE - PAY_RATE) * DURATION, NaN when a cell is missing.
profit(c, p, dur) ==
    IF notna(c) /\ notna(p) /\ notna(dur)
    THEN Some((Val(c) - Val(p)) * Val(dur)) ELSE NULL

\* (CHARGE_RATE - PAY_RATE) / CHARGE_RATE * 100 as the fraction num / den.
profit_margin(c, p) ==
    IF notna(c) /\ notna(p)
    THEN Some([num |-> (Val(c) - Val(p)) * 100, den |-> Val(c)]) ELSE NULL

\* df[df["CHARGE_RATE"] > 0]: a missing rate compares false.
charge_positive(d) ==
    Mask(d, {i \in DOMAIN d : notna(d[i].CHARGE_RATE) /\ Val(d[i].CHARGE_RATE) > 0}, 1)

missing(needed, fcols) == needed \ fcols

failed(name, needed, fcols) ==
    [name |-> name, status |-> "error", missing |-> missing(needed, fcols)]

-----------------------------------------------------------------------------
(* plots/1a and plots/1b *)

columns_1a ==
    {"SHIFT_START_AT", "OFFER_VIEWED_AT", "CLAIMED_AT", "PAY_RATE", "CHARGE_RATE",
     "DURATION", "CLAIMED", "SHIFT_ID"}

\* 1a lines 22-42
report_1a(d) ==
    LET claimed_df == claimed_part(d)
        unclaimed_df == unclaimed_part(d)
        max_offers == groupby_max(unclaimed_df, "PAY_RATE")
        rep == drop_duplicates(unclaimed_df)
        merged_unclaimed ==
            [sid \in unique(unclaimed_df) |->
                [CHARGE_RATE |-> rep[sid].CHARGE_RATE,
                 DURATION |-> rep[sid].DURATION,
                 PAY_RATE_MAX |-> max_offers[sid],
                 PROFIT |-> profit(rep[sid].CHARGE_RATE, max_offers[sid],
                                   rep[sid].DURATION)]]
    IN  [name |-> "1a", status |-> "ok",
         claimed_shifts |-> unique(claimed_df),
         claimed_profit |->
             sum_seq([i \in DOMAIN claimed_df |->
                         profit(claimed_df[i].CHARGE_RATE, claimed_df[i].PAY_RATE,
                                claimed_df[i].DURATION)], 1),
         merged_unclaimed |-> merged_unclaimed,
         unclaimed_profit |->
             sum_by([sid \in DOMAIN merged_unclaimed |-> merged_unclaimed[sid].PROFIT],
                    DOMAIN merged_unclaimed)]

columns_1b ==
    {"SHIFT_START_AT", "OFFER_VIEWED_AT", "CLAIMED_AT", "DURATION", "CLAIMED",
     "SHIFT_ID"}

\* GroupBy.first() of one column of a frame in its own row order.
first_of(u, sid, col) ==
    LET S == {i \in group(u, sid) : notna(u[i][col])}
    IN  IF S = {} THEN NULL ELSE u[Min(S)][col]

\* 1b lines 20-28
report_1b(d) ==
    LET claimed_df == claimed_part(d)
        unclaimed_df == unclaimed_part(d)
        firsts == [sid \in unique(unclaimed_df) |-> first_of(unclaimed_df, sid, "DURATION")]
    IN  [name |-> "1b", status |-> "ok",
         claimed_shifts |-> unique(claimed_df),
         unclaimed_shifts |-> unique(unclaimed_df),
         claimed_hours |->
             sum_seq([i \in DOMAIN claimed_df |-> claimed_df[i].DURATION], 1),
         unclaimed_hours |-> sum_by(firsts, DOMAIN firsts)]

-----------------------------------------------------------------------------
(* plots/4b, plots/5 and plots/6: margins behind the CHARGE_RATE > 0 guard *)

columns_4b ==
    {"SHIFT_START_AT", "CLAIMED_AT", "OFFER_VIEWED_AT", "PAY_RATE", "CHARGE_RATE",
     "DURATION", "CLAIMED", "SHIFT_ID"}

\* 4b lines 13-38
report_4b(d) ==
    LET guarded == charge_positive(d)
        claimed_df == claimed_part(guarded)
        unclaimed_df == unclaimed_part(guarded)
        max_payrates == groupby_max(unclaimed_df, "PAY_RATE")
        meta == drop_duplicates(unclaimed_df)
    IN  [name |-> "4b", status |-> "ok",
         claimed |->
             [i \in DOMAIN claimed_df |->
                 [SHIFT_ID |-> claimed_df[i].SHIFT_ID,
                  DURATION |-> claimed_df[i].DURATION,
                  PROFIT_MARGIN |-> profit_margin(claimed_df[i].CHARGE_RATE,
                                                  claimed_df[i].PAY_RATE)]],
         unclaimed_summary |->
             [sid \in unique(unclaimed_df) |->
                 [MAX_PAY_RATE |-> max_payrates[sid],
                  CHARGE_RATE |-> meta[sid].CHARGE_RATE,
                  DURATION |-> meta[sid].DURATION,
                  PROFIT_MARGIN |-> profit_margin(meta[sid].CHARGE_RATE,
                                                  max_payrates[sid])]]]

columns_5 ==
    {"SHIFT_START_AT", "DURATION", "PAY_RATE", "CHARGE_RATE", "CLAIMED", "SHIFT_ID"}

MinutesPerDay == 24 * 60

\* 5 line 10, 6 line 12: SHIFT_START_AT + DURATION hours.
shift_end_at_h(r) ==
    IF notna(r.SHIFT_START_AT) /\ notna(r.DURATION)
    THEN Some(Val(r.SHIFT_START_AT) + Val(r.DURATION) * 60)
    ELSE NULL

\* 5 lines 20-21: the time of day, here in minutes after midnight.
to_fractional_hour(t) == IF notna(t) THEN Some(Val(t) % MinutesPerDay) ELSE NULL

hours_MutNoWrap(r) ==
    [START_HOUR |-> to_fractional_hour(r.SHIFT_START_AT),
     END_HOUR |-> to_fractional_hour(shift_end_at_h(r))]

\* 5 lines 49-53 and 104-106: END_HOUR gains 24 hours when it is <= START_HOUR.
hours(r) ==
    LET s == to_fractional_hour(r.SHIFT_START_AT)
        e == to_fractional_hour(shift_end_at_h(r))
    IN  [START_HOUR |-> s,
         END_HOUR |-> IF notna(s) /\ notna(e) /\ Val(e) <= Val(s)
                      THEN Some(Val(e) + MinutesPerDay) ELSE e]

\* 5 lines 9-17, 43-53, 86-106
report_5(d) ==
    LET guarded == charge_positive(d)
        claimed_df == claimed_part(guarded)
        unclaimed_df == unclaimed_part(guarded)
        max_pay == groupby_max(unclaimed_df, "PAY_RATE")
        unclaimed_unique == drop_duplicates(unclaimed_df)
    IN  [name |-> "5", status |-> "ok",
         claimed |->
             [i \in DOMAIN claimed_df |->
                 [SHIFT_ID |-> claimed_df[i].SHIFT_ID,
                  SHIFT_START_AT |-> claimed_df[i].SHIFT_START_AT,
                  DURATION |-> claimed_df[i].DURATION,
                  SHIFT_END_AT |-> shift_end_at_h(claimed_df[i]),
                  PM_CLAIMED |-> profit_margin(claimed_df[i].CHARGE_RATE,
                                               claimed_df[i].PAY_RATE)]
                 @@ hours(claimed_df[i])],
         merged_unclaimed |->
             [sid \in unique(unclaimed_df) |->
                 [PAY_RATE_MAX |-> max_pay[sid],
                  SHIFT_START_AT |-> unclaimed_unique[sid].SHIFT_START_AT,
                  DURATION |-> unclaimed_unique[sid].DURATION,
                  SHIFT_END_AT |-> shift_end_at_h(unclaimed_unique[sid]),
                  PM_HIGHEST |-> profit_margin(unclaimed_unique[sid].CHARGE_RATE,
                                               max_pay[sid])]
                 @@ hours(unclaimed_unique[sid])]]

\* 6 lines 11-32
report_6(d) ==
    LET guarded == charge_positive(d)
        claimed_df == claimed_part(guarded)
        unclaimed_df == unclaimed_part(guarded)
        max_pay == groupby_max(unclaimed_df, "PAY_RATE")
        unclaimed_unique == drop_duplicates(unclaimed_df)
    IN  [name |-> "6", status |-> "ok",
         claimed |->
             [i \in DOMAIN claimed_df |->
                 [SHIFT_ID |-> claimed_df[i].SHIFT_ID,
                  SHIFT_START_AT |-> claimed_df[i].SHIFT_START_AT,
                  DURATION |-> claimed_df[i].DURATION,
                  SHIFT_END_AT |-> shift_end_at_h(claimed_df[i]),
                  PM_AT_CLAIM |-> profit_margin(claimed_df[i].CHARGE_RATE,
                                                claimed_df[i].PAY_RATE)]],
         merged_unclaimed |->
             [sid \in unique(unclaimed_df) |->
                 [PAY_RATE_MAX |-> max_pay[sid],
                  SHIFT_START_AT |-> unclaimed_unique[sid].SHIFT_START_AT,
                  DURATION |-> unclaimed_unique[sid].DURATION,
                  SHIFT_END_AT |-> shift_end_at_h(unclaimed_unique[sid]),
                  PM_HIGHEST |-> profit_margin(unclaimed_unique[sid].CHARGE_RATE,
                                               max_pay[sid])]]]

-----------------------------------------------------------------------------
(* plots/4a: claim percentage by duration *)

columns_4a == {"DURATION", "CLAIMED", "SHIFT_ID"}

\* round(1) of num / den * 100, in tenths, ties to the even tenth.
round1(num, den) ==
    LET q == (num * 1000) \div den
        r == (num * 1000) % den
    IN  IF 2 * r > den \/ (2 * r = den /\ q % 2 = 1) THEN q + 1 ELSE q

\* 4a lines 14-18: groups with a missing DURATION are left out by groupby.
grouped_4a(d) ==
    [g \in {<<Val(d[i].DURATION), d[i].CLAIMED>> :
                i \in {j \in DOMAIN d : notna(d[j].DURATION)}} |->
        Cardinality({d[i].SHIFT_ID :
            i \in {j \in DOMAIN d : /\ notna(d[j].DURATION)
                                    /\ Val(d[j].DURATION) = g[1]
                                    /\ d[j].CLAIMED = g[2]}})]

\* 4a lines 21-28: a CLAIMED value that no row has gives the pivot no such
\* column, and lines 27-28 then raise KeyError.
report_4a(d) ==
    LET grouped == grouped_4a(d)
        flags == {g[2] : g \in DOMAIN grouped}
        cell(dur, b) == IF <<dur, b>> \in DOMAIN grouped THEN grouped[<<dur, b>>] ELSE 0
    IN  IF flags # {TRUE, FALSE}
        THEN [name |-> "4a", status |-> "error",
              missing |-> {IF b THEN "CLAIMED" ELSE "NOT_CLAIMED" : b \in BOOLEAN \ flags}]
        ELSE [name |-> "4a", status |-> "ok",
              pivot |->
                  [dur \in {g[1] : g \in DOMAIN grouped} |->
                      [CLAIMED |-> cell(dur, TRUE),
                       NOT_CLAIMED |-> cell(dur, FALSE),
                       TOTAL |-> cell(dur, TRUE) + cell(dur, FALSE),
                       PCT_CLAIMED |->
                           round1(cell(dur, TRUE), cell(dur, TRUE) + cell(dur, FALSE))]]]

-----------------------------------------------------------------------------
(* plots/7a and plots/7b: days between first view and shift start *)

hour_bin_width == 24

hour_bin_count == 30

min_bucket_shifts == 50

\* 7a line 10: SHIFT_START_AT - OFFER_VIEWED_AT, here in minutes.
HOURS_DIFF(r) ==
    IF notna(r.SHIFT_START_AT) /\ notna(r.OFFER_VIEWED_AT)
    THEN Some(Val(r.SHIFT_START_AT) - Val(r.OFFER_VIEWED_AT)) ELSE NULL

\* 7a line 13: a missing difference compares false.
viewed_before_start(d) ==
    Mask(d, {i \in DOMAIN d : notna(HOURS_DIFF(d[i])) /\ Val(HOURS_DIFF(d[i])) >= 0}, 1)

\* 7a lines 16-17: pd.cut over the edges 0, 24, ..., 720 with right=False;
\* bucket k is [24k, 24(k+1)) hours, a value outside the edges gets none.
TIME_BUCKET_DAYS(r) ==
    LET h == HOURS_DIFF(r)
    IN  IF notna(h) /\ Val(h) >= 0 /\ Val(h) < hour_bin_count * hour_bin_width * 60
        THEN Some(Val(h) \div (hour_bin_width * 60)) ELSE NULL

hour_bins == 0 .. (hour_bin_count - 1)

in_bucket(u, k) == {i \in DOMAIN u : TIME_BUCKET_DAYS(u[i]) = Some(k)}

columns_7a == {"SHIFT_START_AT", "OFFER_VIEWED_AT", "CLAIMED", "SHIFT_ID"}

bucket_nunique_MutRows(u, k) == Cardinality(in_bucket(u, k))

\* 7a lines 24 and 30: groupby(bucket)["SHIFT_ID"].nunique() of one bucket.
bucket_nunique(u, k) == Cardinality({u[i].SHIFT_ID : i \in in_bucket(u, k)})

\* 7a lines 9-36
report_7a(d) ==
    LET valid == viewed_before_start(d)
        claimed_df == claimed_part(valid)
        total_counts == [k \in hour_bins |-> bucket_nunique(valid, k)]
        valid_buckets == {k \in hour_bins : total_counts[k] >= min_bucket_shifts}
        claimed_counts == [k \in valid_buckets |-> bucket_nunique(claimed_df, k)]
    IN  [name |-> "7a", status |-> "ok",
         total_counts |-> total_counts,
         valid_buckets |-> valid_buckets,
         percent_claimed |->
             [k \in valid_buckets |->
                 [num |-> claimed_counts[k] * 100, den |-> total_counts[k]]],
         bucket_labels |->
             [k \in valid_buckets |-> ((k + 1) * hour_bin_width) \div 24]]

columns_7b ==
    {"SHIFT_START_AT", "OFFER_VIEWED_AT", "PAY_RATE", "CHARGE_RATE", "CLAIMED",
     "SHIFT_ID"}

\* CHARGE_RATE - PAY_RATE, NaN when a cell is missing (7b lines 37 and 55).
margin_abs(c, p) ==
    IF notna(c) /\ notna(p) THEN Some(Val(c) - Val(p)) ELSE NULL

\* groupby(bucket).mean(): the mean of the non-null cells, NaN without any.
mean(cells, S) ==
    LET have == {i \in S : notna(cells[i])}
    IN  IF have = {} THEN NULL
        ELSE Some([num |-> sum_by(cells, have), den |-> Cardinality(have)])

\* 7b lines 61-65: the buckets after the first, a missing mean filled with 0.
reindex_fill(avg) ==
    [k \in hour_bins \ {0} |-> IF notna(avg[k]) THEN Val(avg[k]) ELSE [num |-> 0, den |-> 1]]

\* 7b lines 8-65
report_7b(d) ==
    LET valid == viewed_before_start(d)
        claimed == claimed_part(valid)
        unclaimed == unclaimed_part(valid)
        claimed_pm == [i \in DOMAIN claimed |->
                          margin_abs(claimed[i].CHARGE_RATE, claimed[i].PAY_RATE)]
        max_pay == groupby_max(unclaimed, "PAY_RATE")
        unclaimed_meta == drop_duplicates(unclaimed)
        unclaimed_merged ==
            [sid \in unique(unclaimed) |->
                [TIME_BUCKET_DAYS |-> TIME_BUCKET_DAYS(unclaimed_meta[sid]),
                 CHARGE_RATE |-> unclaimed_meta[sid].CHARGE_RATE,
                 HIGHEST_PAY |-> max_pay[sid],
                 PROFIT_MARGIN |-> margin_abs(unclaimed_meta[sid].CHARGE_RATE,
                                              max_pay[sid])]]
        unclaimed_pm == [sid \in DOMAIN unclaimed_merged |->
                            unclaimed_merged[sid].PROFIT_MARGIN]
    IN  [name |-> "7b", status |-> "ok",
         claimed |->
             [i \in DOMAIN claimed |->
                 [SHIFT_ID |-> claimed[i].SHIFT_ID,
                  TIME_BUCKET_DAYS |-> TIME_BUCKET_DAYS(claimed[i]),
                  PROFIT_MARGIN |-> claimed_pm[i]]],
         unclaimed_merged |-> unclaimed_merged,
         claimed_pm_avg |->
             reindex_fill([k \in hour_bins |-> mean(claimed_pm, in_bucket(claimed, k))]),
         unclaimed_pm_avg |->
             reindex_fill([k \in hour_bins |->
                 mean(unclaimed_pm,
                      {sid \in DOMAIN unclaimed_merged :
                          unclaimed_merged[sid].TIME_BUCKET_DAYS = Some(k)})]),
         labels_29 |-> [k \in hour_bins \ {0} |-> k]]

-----------------------------------------------------------------------------
(* Inputs *)

Tables(rows) == UNION {[1..n -> rows] : n \in 1..MaxEvents}

Present(cols, c, vals) == IF c \in cols THEN vals ELSE {NULL}

\* Event tables that exercise the Claim Resolver and the Exclusion Filter.
CohortRows(cols) ==
    {Row(sid, cl, ca, v, n, Some(20), Some(30), Some(8), Some(6000), Some(3000)) :
        sid \in ShiftIds,
        cl \in {NULL, Some(540), Some(600)},
        ca \in {NULL, Some(700)},
        v \in Present(cols, "IS_VERIFIED", {NULL, Some(TRUE), Some(FALSE)}),
        n \in Present(cols, "IS_NCNS", {Some(FALSE), Some(TRUE)})}

Start(d, cols) ==
    /\ df = d
    /\ columns = cols
    /\ pc = "start"
    /\ claimed_df_sorted = <<>>
    /\ first_claims = <<>>
    /\ stats = <<>>
    /\ excluded_shift_ids = {}
    /\ df_final = <<>>
    /\ final_columns = {}
    /\ first_claims_final = <<>>
    /\ rerun = <<>>
    /\ report = <<>>

Init ==
    \E cols \in SUBSET OptionalColumns :
        \E d \in Tables(CohortRows(cols)) : Start(d, cols)

-----------------------------------------------------------------------------
(* Load_shifts_final.py *)

\* Lines 14-47
ResolveClaims ==
    /\ pc = "start"
    /\ \E order \in sort_values(df, claimed_rows(df)) :
          /\ claimed_df_sorted' = order
          /\ first_claims' = groupby_first(df, columns, order)
          /\ stats' = Stats(df, groupby_first(df, columns, order))
    /\ pc' = "resolved"
    /\ UNCHANGED <<df, columns, excluded_shift_ids, df_final, final_columns,
                   first_claims_final, rerun, report>>

\* Lines 51-70
ExclusionFilter ==
    /\ pc = "resolved"
    /\ excluded_shift_ids' = excluded(df, columns, first_claims)
    /\ df_final' = filter(df, columns, excluded(df, columns, first_claims))
    /\ pc' = "filtered"
    /\ UNCHANGED <<df, columns, claimed_df_sorted, first_claims, stats,
                   final_columns, first_claims_final, rerun, report>>

\* Lines 4-12
Ingest ==
    /\ pc = "csv"
    /\ IF to_datetime_raises(df)
       THEN pc' = "ValueError" /\ UNCHANGED df
       ELSE /\ df' = [i \in DOMAIN df |-> with_claimed(df[i])]
            /\ pc' = "start"
    /\ UNCHANGED <<columns, claimed_df_sorted, first_claims, stats,
                   excluded_shift_ids, df_final, final_columns,
                   first_claims_final, rerun, report>>

\* Lines 72-118; line 73 raises ValueError on text it cannot parse, line 101
\* raises KeyError when dropna left no SHIFT_ID column.
Finalize ==
    /\ pc = "filtered"
    /\ \E raised \in line_73_raises(df, df_final) :
          IF raised
          THEN /\ pc' = "ValueError"
               /\ UNCHANGED <<df_final, final_columns, first_claims_final>>
          ELSE /\ \E order \in sort_values(df_final, claimed_rows(df_final)) :
                     first_claims_final' = groupby_first(df_final, columns, order)
               /\ df_final' = [i \in DOMAIN df_final |-> final_row(df_final[i])]
               /\ final_columns' = dropna_columns(df_final, columns)
               /\ pc' = IF "SHIFT_ID" \in dropna_columns(df_final, columns)
                        THEN "done" ELSE "KeyError"
    /\ UNCHANGED <<df, columns, claimed_df_sorted, first_claims, stats,
                   excluded_shift_ids, rerun, report>>

\* The script run again, reading the table it wrote.
Rerun ==
    /\ pc = "done"
    /\ rerun' = Rerun_result(df_final, final_columns)
    /\ pc' = "rerun"
    /\ UNCHANGED <<df, columns, claimed_df_sorted, first_claims, stats,
                   excluded_shift_ids, df_final, final_columns,
                   first_claims_final, report>>

Next ==
    \/ ResolveClaims
    \/ ExclusionFilter
    \/ Finalize
    \/ Rerun

Spec == Init /\ [][Next]_vars

-----------------------------------------------------------------------------
(* plots/: each script reads shifts_final.csv, the table df_final *)

Ran(name, needed, out) ==
    /\ pc = "done"
    /\ report' = IF needed \subseteq final_columns THEN out
                 ELSE failed(name, needed, final_columns)
    /\ pc' = "reported"
    /\ UNCHANGED <<df, columns, claimed_df_sorted, first_claims, stats,
                   excluded_shift_ids, df_final, final_columns,
                   first_claims_final, rerun>>

Report1a == Ran("1a", columns_1a, report_1a(df_final))

Report1b == Ran("1b", columns_1b, report_1b(df_final))

Report4a == Ran("4a", columns_4a, report_4a(df_final))

Report4b == Ran("4b", columns_4b, report_4b(df_final))

Report5 == Ran("5", columns_5, report_5(df_final))

Report6 == Ran("6", columns_5, report_6(df_final))

Report7a == Ran("7a", columns_7a, report_7a(df_final))

Report7b == Ran("7b", columns_7b, report_7b(df_final))

\* Event tables that exercise the metrics: clean shifts whose rows differ in
\* pay rate and carry at most one data-quality defect (a charge rate of 0, a
\* missing charge rate, an offer viewed after the shift start).
ReportRows ==
    {Row(sid, cl, NULL, Some(TRUE), Some(FALSE), Some(p), q[1], Some(8),
         Some(6000), Some(q[2])) :
        sid \in ShiftIds,
        cl \in {NULL, Some(540)},
        p \in {18, 22},
        q \in {<<Some(30), 4500>>, <<Some(0), 4500>>, <<NULL, 4500>>,
               <<Some(30), 6060>>}}

ReportTables == UNION {[1..n -> ReportRows] : n \in 1..MaxReportEvents}

InitReports == \E d \in ReportTables : Start(d, OptionalColumns)

NextReports ==
    \/ ResolveClaims
    \/ ExclusionFilter
    \/ Finalize
    \/ Rerun
    \/ Report1a
    \/ Report1b
    \/ Report4a
    \/ Report4b
    \/ Report5
    \/ Report6
    \/ Report7a
    \/ Report7b

SpecReports == InitReports /\ [][NextReports]_vars

-----------------------------------------------------------------------------
(* plots/7a and plots/7b on a cohort that is large enough for the 50-shift
   threshold *)

MaxBucketShifts == 51

\* n shifts with one view event each, first viewed 24 hours before the start.
Block(n) ==
    [i \in 1..n |->
        Row(i, NULL, NULL, Some(TRUE), Some(FALSE), Some(20), Some(30), Some(8),
            Some(50000), Some(50000 - 24 * 60))]

\* Further events: one more view of shift 1 of the block, and views or a claim
\* of one more shift, shift 0, first viewed 24 hours or 1 hour before the
\* start or 1 hour after it.
BucketTailRows ==
    {Row(q[1], q[2], NULL, Some(TRUE), Some(FALSE), Some(20), Some(30), Some(8),
         Some(50000), Some(50000 - q[3] * 60)) :
        q \in {<<1, NULL, 24>>, <<0, NULL, 24>>, <<0, Some(540), 24>>,
               <<0, NULL, 1>>, <<0, NULL, -1>>}}

InitBuckets ==
    \E n \in (min_bucket_shifts - 1)..MaxBucketShifts :
        \E tail \in Tables(BucketTailRows) : Start(Block(n) \o tail, OptionalColumns)

NextBuckets ==
    \/ ResolveClaims
    \/ ExclusionFilter
    \/ Finalize
    \/ Report7a
    \/ Report7b

SpecBuckets == InitBuckets /\ [][NextBuckets]_vars

-----------------------------------------------------------------------------
(* plots/7a, plots/7b and plots/4a on offers viewed at any distance from the
   shift start *)

\* Events viewed 1 hour, exactly 24 hours, or one minute less than 720 hours
\* before the start at a pay rate of 18; events viewed exactly 720 hours
\* before the start, 1 hour after it, or never, at a pay rate of 22.
LatencyRows ==
    {Row(sid, cl, NULL, Some(TRUE), Some(FALSE), Some(q[1]), Some(30), Some(8),
         Some(50000), q[2]) :
        sid \in ShiftIds,
        cl \in {NULL, Some(540)},
        q \in {<<18, Some(50000 - 60)>>, <<18, Some(50000 - 24 * 60)>>,
               <<18, Some(50000 - 720 * 60 + 1)>>, <<22, Some(50000 - 720 * 60)>>,
               <<22, Some(50000 + 60)>>, <<22, NULL>>}}

InitLatency == \E d \in Tables(LatencyRows) : Start(d, OptionalColumns)

NextLatency ==
    \/ ResolveClaims
    \/ ExclusionFilter
    \/ Finalize
    \/ Report4a
    \/ Report7a
    \/ Report7b

SpecLatency == InitLatency /\ [][NextLatency]_vars

-----------------------------------------------------------------------------
(* plots/4a, plots/5 and plots/6 on shifts of several start times and
   durations *)

\* Shifts that start at 04:00 or at 20:40 and have a DURATION of 0, 8, 24 or 30
\* or none.
TimeOfDayRows ==
    {Row(sid, cl, NULL, Some(TRUE), Some(FALSE), Some(20), Some(30), dur,
         Some(st), Some(3000)) :
        sid \in ShiftIds,
        cl \in {NULL, Some(540)},
        st \in {4 * MinutesPerDay + 4 * 60, 4 * MinutesPerDay + 20 * 60 + 40},
        dur \in {NULL, Some(0), Some(8), Some(24), Some(30)}}

InitTimeOfDay == \E d \in Tables(TimeOfDayRows) : Start(d, OptionalColumns)

NextTimeOfDay ==
    \/ ResolveClaims
    \/ ExclusionFilter
    \/ Finalize
    \/ Report4a
    \/ Report5
    \/ Report6

SpecTimeOfDay == InitTimeOfDay /\ [][NextTimeOfDay]_vars

-----------------------------------------------------------------------------
(* Load_shifts_final.py from the CSV, with cells that do not parse *)

IngestDefects ==
    {"none", "CLAIMED_AT", "CANCELED_AT", "SHIFT_START_AT", "DURATION", "PAY_RATE",
     "CHARGE_RATE", "OFFER_VIEWED_AT"}

\* The cell of column col in a row whose defect is in column bad.
Cell(bad, col, good) == IF bad = col THEN Unparsable ELSE good

\* Rows of the CSV with at most one cell that does not parse.
IngestRows ==
    {RawRow(sid, Cell(bad, "CLAIMED_AT", cl), Cell(bad, "CANCELED_AT", ca),
            Some(TRUE), Some(FALSE), Cell(bad, "PAY_RATE", Some(20)),
            Cell(bad, "CHARGE_RATE", Some(30)), Cell(bad, "DURATION", Some(8)),
            Cell(bad, "SHIFT_START_AT", Some(6000)),
            Cell(bad, "OFFER_VIEWED_AT", Some(3000))) :
        sid \in ShiftIds,
        bad \in IngestDefects,
        cl \in {NULL, Some(540)},
        ca \in {NULL, Some(700)}}

InitIngest ==
    \E d \in Tables(IngestRows) :
        /\ df = d
        /\ columns = OptionalColumns
        /\ pc = "csv"
        /\ claimed_df_sorted = <<>>
        /\ first_claims = <<>>
        /\ stats = <<>>
        /\ excluded_shift_ids = {}
        /\ df_final = <<>>
        /\ final_columns = {}
        /\ first_claims_final = <<>>
        /\ rerun = <<>>
        /\ report = <<>>

NextIngest ==
    \/ Ingest
    \/ ResolveClaims
    \/ ExclusionFilter
    \/ Finalize

SpecIngest == InitIngest /\ [][NextIngest]_vars

-----------------------------------------------------------------------------
(* Properties of the Claim Resolver and the Exclusion Filter *)

Resolved == pc # "start"

Filtered == pc \notin {"start", "resolved"}

events(d, s) == {i \in DOMAIN d : d[i].SHIFT_ID = s}

claims(d, s) == {i \in events(d, s) : notna(d[i].CLAIMED_AT)}

has_cancel(s) == \E i \in events(df, s) : notna(df[i].CANCELED_AT)

has_ncns(s) == \E i \in events(df, s) : df[i].IS_NCNS = Some(TRUE)

first_claim_not_worked(s) == claims(df, s) # {} /\ ~first_claims[s].IS_VERIFIED

\* The cells of a row that no step of the script rewrites.
cells(r) ==
    <<r.SHIFT_ID, r.CLAIMED_AT, r.CANCELED_AT, r.PAY_RATE, r.CHARGE_RATE,
      r.DURATION, r.SHIFT_START_AT, r.OFFER_VIEWED_AT>>

events_seq(d, s) ==
    LET m == Mask(d, events(d, s), 1) IN [i \in DOMAIN m |-> cells(m[i])]

\* C1: a shift is absent from the clean cohort if and only if one of its events
\* has a canceled_at, one of its events has is_ncns true, or it is claimed and
\* the worked flag of its first claim is false; every other shift is retained.
C1_ExcludedIffAnyCriterion ==
    Filtered =>
        \A s \in unique(df) :
            (s \notin unique(df_final))
                <=> (has_cancel(s) \/ has_ncns(s) \/ first_claim_not_worked(s))

\* A shift dropped by the third criterion alone, beside a shift that stays.
C1_Witness ==
    /\ pc = "filtered"
    /\ \E s, t \in unique(df) :
          /\ first_claim_not_worked(s) /\ ~has_cancel(s) /\ ~has_ncns(s)
          /\ s \notin unique(df_final)
          /\ t \in unique(df_final)

\* C2: for every shift either all of its input events are in the clean cohort
\* or none is; a shift with canceled_at on one event and a valid claim on
\* another has no event left.
C2_AllOrNothing ==
    Filtered =>
        \A s \in unique(df) :
            /\ events_seq(df_final, s) \in {<<>>, events_seq(df, s)}
            /\ (\E i, j \in events(df, s) :
                    /\ notna(df[i].CANCELED_AT)
                    /\ isna(df[j].CANCELED_AT) /\ notna(df[j].CLAIMED_AT)
                    /\ df[j].IS_VERIFIED = Some(TRUE))
                => events(df_final, s) = {}

\* Scenario B: a canceled event and a verified claim on another event.
C2_Witness ==
    /\ pc = "filtered"
    /\ \E s \in unique(df) :
          /\ \E i, j \in events(df, s) :
                /\ notna(df[i].CANCELED_AT)
                /\ isna(df[j].CANCELED_AT) /\ notna(df[j].CLAIMED_AT)
                /\ df[j].IS_VERIFIED = Some(TRUE) /\ df[j].IS_NCNS # Some(TRUE)
          /\ events(df_final, s) = {}

\* C3: every shift with a claimed event has a first claim, and its claimed_at
\* is the minimum claimed_at over the shift's claimed events, whatever the
\* order of the input rows.
C3_FirstClaimIsEarliest ==
    Resolved =>
        /\ DOMAIN first_claims = {s \in unique(df) : claims(df, s) # {}}
        /\ \A s \in DOMAIN first_claims :
              /\ notna(first_claims[s].CLAIMED_AT)
              /\ \A i \in claims(df, s) :
                    Val(first_claims[s].CLAIMED_AT) <= Val(df[i].CLAIMED_AT)
              /\ \E i \in claims(df, s) :
                    first_claims[s].CLAIMED_AT = df[i].CLAIMED_AT

\* The later claim comes first in the input and the earlier one is selected.
C3_Witness ==
    /\ pc = "resolved"
    /\ \E s \in unique(df) :
          \E i, j \in claims(df, s) :
              /\ i < j
              /\ Val(df[j].CLAIMED_AT) < Val(df[i].CLAIMED_AT)
              /\ first_claims[s].CLAIMED_AT = df[j].CLAIMED_AT

fillna_false(v) == IF isna(v) THEN FALSE ELSE Val(v)

\* C4: with the IS_VERIFIED column present, the worked flag of a claimed shift
\* is the is_verified cell of the event with the minimum claimed_at, false
\* when that cell is missing, whatever the later claim events carry.
C4_WorkedIsFirstClaimVerified ==
    (Resolved /\ "IS_VERIFIED" \in columns) =>
        \A s \in DOMAIN first_claims :
            \A i \in claims(df, s) :
                (\A j \in claims(df, s) \ {i} :
                    Val(df[i].CLAIMED_AT) < Val(df[j].CLAIMED_AT))
                => first_claims[s].IS_VERIFIED = fillna_false(df[i].IS_VERIFIED)

\* C5: in the pipeline's output CLAIMED is true on an event if and only if some
\* event of the same shift has a non-null claimed_at.
C5_ClaimedIsPerShift ==
    pc = "done" =>
        \A i \in DOMAIN df_final :
            df_final[i].CLAIMED <=> claims(df_final, df_final[i].SHIFT_ID) # {}

\* C6: total_shifts = claimed shifts + never-claimed shifts, the claimed ones
\* being the shift ids with a claimed event and the never-claimed ones the
\* shift ids without.
C6_ShiftPartition ==
    Resolved =>
        /\ stats.total_shifts = stats.first_claimers_total + stats.num_never_claimed
        /\ stats.total_shifts = Cardinality(unique(df))
        /\ stats.first_claimers_total =
               Cardinality({s \in unique(df) : claims(df, s) # {}})
        /\ stats.num_never_claimed =
               Cardinality({s \in unique(df) : claims(df, s) = {}})

\* A claimed shift beside a never-claimed one.
C6_Witness ==
    /\ pc = "resolved"
    /\ stats.first_claimers_total = 1
    /\ stats.num_never_claimed = 1
    /\ \E s \in unique(df) : claims(df, s) = {}

\* C7: the script run on the clean cohort it produced completes and yields the
\* same events.
C7_RerunIsIdentity ==
    pc = "rerun" =>
        /\ rerun.status = "ok"
        /\ [i \in DOMAIN rerun.df_final |-> cells(rerun.df_final[i])]
               = [i \in DOMAIN df_final |-> cells(df_final[i])]

-----------------------------------------------------------------------------
(* Properties of the metrics *)

Reported(names) == pc = "reported" /\ report.status = "ok" /\ report.name \in names

\* The shifts of the clean cohort without any claimed event.
unclaimed_shifts == {s \in unique(df_final) : claims(df_final, s) = {}}

pay_rates(s) ==
    {Val(df_final[i].PAY_RATE) :
        i \in {j \in events(df_final, s) : notna(df_final[j].PAY_RATE)}}

\* The max_offered_pay_rate column of the report that ran.
max_offered ==
    IF report.name = "4b"
    THEN [s \in DOMAIN report.unclaimed_summary |-> report.unclaimed_summary[s].MAX_PAY_RATE]
    ELSE IF report.name = "7b"
    THEN [s \in DOMAIN report.unclaimed_merged |-> report.unclaimed_merged[s].HIGHEST_PAY]
    ELSE [s \in DOMAIN report.merged_unclaimed |-> report.merged_unclaimed[s].PAY_RATE_MAX]

\* C8: in every report that derives it, the max_offered_pay_rate of an
\* unclaimed shift is at least every pay_rate recorded on an event of the
\* shift, the events the report's own filters leave out included.
C8_MaxOfferedDominates ==
    Reported({"1a", "4b", "5", "6", "7b"}) =>
        \A s \in unclaimed_shifts \cap DOMAIN max_offered :
            \A p \in pay_rates(s) :
                notna(max_offered[s]) /\ Val(max_offered[s]) >= p

\* C9: for every unclaimed shift the margin is (charge_rate - max) / charge_rate
\* * 100 and the profit (charge_rate - max) * duration, max being the maximum
\* pay_rate over the shift's events and charge_rate and duration those of one
\* event of the shift; rates 18, 22, 20 under a charge rate of 30 give 26.7.
C9_UnclaimedMetrics ==
    /\ round1(30 - Max({18, 22, 20}), 30) = 267
    /\ Reported({"4b"}) =>
          \A s \in unclaimed_shifts \cap DOMAIN report.unclaimed_summary :
              \E i \in events(df_final, s) :
                  /\ notna(df_final[i].CHARGE_RATE)
                  /\ Val(df_final[i].CHARGE_RATE) # 0
                  /\ notna(report.unclaimed_summary[s].PROFIT_MARGIN)
                  /\ LET c == Val(df_final[i].CHARGE_RATE)
                         m == Val(report.unclaimed_summary[s].PROFIT_MARGIN)
                     IN  m.num * c = (c - Max(pay_rates(s))) * 100 * m.den
    /\ Reported({"1a"}) =>
          \A s \in unclaimed_shifts \cap DOMAIN report.merged_unclaimed :
              \E i \in events(df_final, s) :
                  report.merged_unclaimed[s].PROFIT =
                      profit(df_final[i].CHARGE_RATE, Some(Max(pay_rates(s))),
                             df_final[i].DURATION)

\* The shifts of the clean cohort whose charge rate is <= 0.
non_positive_charge ==
    {s \in unique(df_final) :
        \A i \in events(df_final, s) :
            notna(df_final[i].CHARGE_RATE) /\ Val(df_final[i].CHARGE_RATE) <= 0}

\* The shifts behind the margin values of the report that ran.
margin_shifts ==
    IF report.name = "4b"
    THEN {report.claimed[i].SHIFT_ID : i \in DOMAIN report.claimed}
             \cup DOMAIN report.unclaimed_summary
    ELSE IF report.name = "7b"
    THEN {report.claimed[i].SHIFT_ID :
              i \in {j \in DOMAIN report.claimed :
                        /\ notna(report.claimed[j].PROFIT_MARGIN)
                        /\ notna(report.claimed[j].TIME_BUCKET_DAYS)
                        /\ Val(report.claimed[j].TIME_BUCKET_DAYS) >= 1}}
         \cup {s \in DOMAIN report.unclaimed_merged :
                  /\ notna(report.unclaimed_merged[s].PROFIT_MARGIN)
                  /\ notna(report.unclaimed_merged[s].TIME_BUCKET_DAYS)
                  /\ Val(report.unclaimed_merged[s].TIME_BUCKET_DAYS) >= 1}
    ELSE {report.claimed[i].SHIFT_ID : i \in DOMAIN report.claimed}
             \cup DOMAIN report.merged_unclaimed

\* C10: a shift whose charge_rate is <= 0 is behind no margin value of the
\* duration, time-of-day, holiday and latency reports, and is still counted by
\* the claim-percentage reports and kept in the clean cohort.
C10_ChargeGuard ==
    /\ Reported({"4b", "5", "6", "7b"}) => margin_shifts \cap non_positive_charge = {}
    /\ Reported({"4a"}) =>
          \A s \in non_positive_charge :
              \A i \in events(df_final, s) :
                  notna(df_final[i].DURATION) =>
                      /\ Val(df_final[i].DURATION) \in DOMAIN report.pivot
                      /\ report.pivot[Val(df_final[i].DURATION)].TOTAL =
                             Cardinality({df_final[j].SHIFT_ID :
                                 j \in {k \in DOMAIN df_final :
                                           df_final[k].DURATION = df_final[i].DURATION}})
    /\ Reported({"7a"}) =>
          \A k \in hour_bins :
              report.total_counts[k] =
                  Cardinality({df_final[i].SHIFT_ID : i \in in_bucket(df_final, k)})

-----------------------------------------------------------------------------
(* Properties of the latency reports *)

\* The event's offer was viewed at least 24k and less than 24(k+1) hours
\* before the shift start.
viewed_in(r, k) ==
    /\ notna(r.SHIFT_START_AT) /\ notna(r.OFFER_VIEWED_AT)
    /\ Val(r.SHIFT_START_AT) - Val(r.OFFER_VIEWED_AT) >= 24 * k * 60
    /\ Val(r.SHIFT_START_AT) - Val(r.OFFER_VIEWED_AT) < 24 * (k + 1) * 60

\* The distinct shifts of the clean cohort with an event in bucket k.
shifts_in(k) ==
    {df_final[i].SHIFT_ID : i \in {j \in DOMAIN df_final : viewed_in(df_final[j], k)}}

\* C11: the buckets reported with a claim percentage are exactly the buckets
\* of [0, 720) hours that hold at least 50 distinct shifts.
C11_ReportedIffFiftyShifts ==
    Reported({"7a"}) =>
        /\ DOMAIN report.percent_claimed =
               {k \in hour_bins : Cardinality(shifts_in(k)) >= 50}
        /\ \A k \in DOMAIN report.percent_claimed :
              report.total_counts[k] = Cardinality(shifts_in(k))

\* A bucket of exactly 50 shifts is reported, one of them claimed, next to a
\* bucket with fewer shifts that is not.
C11_Witness ==
    /\ Reported({"7a"})
    /\ Cardinality(shifts_in(1)) = 50
    /\ 1 \in DOMAIN report.percent_claimed
    /\ report.percent_claimed[1].num > 0
    /\ shifts_in(0) # {}
    /\ 0 \notin DOMAIN report.percent_claimed

\* The events of d that fall in one of the 30 buckets.
bucketed(d) == Mask(d, {i \in DOMAIN d : \E k \in hour_bins : viewed_in(d[i], k)}, 1)

\* Two series of bucket averages with the same buckets and the same values.
same_avg(a, b) ==
    /\ DOMAIN a = DOMAIN b
    /\ \A k \in DOMAIN a : a[k].num * b[k].den = b[k].num * a[k].den

\* C12: an event is in bucket k if and only if it was viewed at least 24k and
\* less than 24(k+1) hours before the start; an event viewed after the start,
\* 720 hours or more before it, or never, is in no bucket and changes no
\* latency statistic, and the by-duration counts still include it.
C12_LatencyBuckets ==
    /\ pc \in {"done", "reported"} =>
          \A i \in DOMAIN df_final :
              \A k \in hour_bins :
                  TIME_BUCKET_DAYS(df_final[i]) = Some(k) <=> viewed_in(df_final[i], k)
    /\ Reported({"7a"}) =>
          report.total_counts = report_7a(bucketed(df_final)).total_counts
    /\ Reported({"7b"}) =>
          /\ same_avg(report.claimed_pm_avg,
                      report_7b(bucketed(df_final)).claimed_pm_avg)
          /\ same_avg(report.unclaimed_pm_avg,
                      report_7b(bucketed(df_final)).unclaimed_pm_avg)
    /\ Reported({"4a"}) =>
          \A i \in DOMAIN df_final :
              notna(df_final[i].DURATION) =>
                  Val(df_final[i].DURATION) \in DOMAIN report.pivot

-----------------------------------------------------------------------------
(* Properties of the by-duration report *)

\* The distinct shifts of the clean cohort with an event of duration dur.
shifts_of_duration(dur) ==
    {s \in unique(df_final) :
        \E i \in events(df_final, s) : df_final[i].DURATION = Some(dur)}

\* C18: for every duration, claimed count + unclaimed count = total, the total
\* is the number of distinct shifts of the clean cohort with that duration,
\* each shift counted once, and % claimed is claimed / total * 100 rounded to
\* one decimal.
C18_DurationCounts ==
    Reported({"4a"}) =>
        \A dur \in DOMAIN report.pivot :
            /\ report.pivot[dur].CLAIMED + report.pivot[dur].NOT_CLAIMED
                   = report.pivot[dur].TOTAL
            /\ report.pivot[dur].TOTAL = Cardinality(shifts_of_duration(dur))
            /\ report.pivot[dur].PCT_CLAIMED
                   = round1(report.pivot[dur].CLAIMED, report.pivot[dur].TOTAL)

-----------------------------------------------------------------------------
(* Properties of the shift end and of the time of day *)

\* Start, duration and end of the rows behind the bars of the time-of-day and
\* the holiday report.
bars ==
    {<<report.claimed[i].SHIFT_START_AT, report.claimed[i].DURATION,
       report.claimed[i].SHIFT_END_AT>> : i \in DOMAIN report.claimed}
        \cup {<<report.merged_unclaimed[s].SHIFT_START_AT,
                report.merged_unclaimed[s].DURATION,
                report.merged_unclaimed[s].SHIFT_END_AT>> :
                  s \in DOMAIN report.merged_unclaimed}

\* C13: the SHIFT_END_AT that the time-of-day and the holiday report use for an
\* event is the SHIFT_END_AT the clean cohort stores for it, shift_start_at +
\* duration with the duration read in the same unit.
C13_OneShiftEnd ==
    Reported({"5", "6"}) =>
        \A b \in bars :
            \A i \in DOMAIN df_final :
                (df_final[i].SHIFT_START_AT = b[1] /\ df_final[i].DURATION = b[2])
                    => df_final[i].SHIFT_END_AT = b[3]

-----------------------------------------------------------------------------
(* Properties of the error handling *)

\* C14: a timestamp or a number of the input that does not parse is never
\* raised as an error and becomes null: the script that builds the clean
\* cohort does not stop with a ValueError on any input that has such cells,
\* and the cohort it writes has none of them.
C14_UnparsableNeverRaised ==
    /\ pc # "ValueError"
    /\ pc = "done" =>
          \A i \in DOMAIN df_final :
              \A c \in NullableColumns : ~unparsable(df_final[i][c])

\* C15: without the IS_VERIFIED column every claimed shift counts as worked
\* and none is excluded for its first claim; without the IS_NCNS column the
\* no-show criterion excludes none; the Exclusion Filter runs in both cases
\* and excludes exactly the shifts of the criteria that remain.
C15_MissingOptionalColumn ==
    /\ pc = "resolved" => ENABLED ExclusionFilter
    /\ (Resolved /\ "IS_VERIFIED" \notin columns) =>
          \A s \in DOMAIN first_claims : first_claims[s].IS_VERIFIED
    /\ Filtered =>
          /\ excluded_shift_ids =
                 ({s \in unique(df) : has_cancel(s)}
                  \cup (IF "IS_NCNS" \in columns
                        THEN {s \in unique(df) : has_ncns(s)} ELSE {}))
                 \cup (IF "IS_VERIFIED" \in columns
                       THEN {s \in unique(df) : first_claim_not_worked(s)} ELSE {})
          /\ unique(df_final) = unique(df) \ excluded_shift_ids

\* A table with neither optional column: the claimed shift stays, the
\* canceled one goes.
C15_Witness ==
    /\ pc = "filtered"
    /\ columns = {}
    /\ \E s, t \in unique(df) :
          /\ claims(df, s) # {} /\ s \in unique(df_final)
          /\ has_cancel(t) /\ excluded_shift_ids = {t}

\* C17: once the rows of the excluded shifts are removed no remaining event
\* has is_ncns true, so the row-level re-check after the shift-level filter
\* removes no row.
C17_RecheckRemovesNothing ==
    pc = "filtered" =>
        /\ \A i \in DOMAIN df_final : df_final[i].IS_NCNS # Some(TRUE)
        /\ \A i \in isin_not(df, columns, excluded_shift_ids) :
              df[i].IS_NCNS # Some(TRUE)
        /\ df_final = Mask(df, isin_not(df, columns, excluded_shift_ids), 1)

\* The no-show event takes its shift out and the event of the other shift
\* passes the re-check.
C17_Witness ==
    /\ pc = "filtered"
    /\ "IS_NCNS" \in columns
    /\ \E i, j \in DOMAIN df :
          /\ df[i].IS_NCNS = Some(TRUE)
          /\ isna(df[i].CANCELED_AT)
          /\ df[j].SHIFT_ID # df[i].SHIFT_ID
          /\ df_final = <<df[j]>>

-----------------------------------------------------------------------------
(* Properties of the order of the rows *)

\* The claimed events of shift s that carry its minimum claimed_at.
earliest_claims(s) ==
    {i \in claims(df, s) :
        \A j \in claims(df, s) : Val(df[i].CLAIMED_AT) <= Val(df[j].CLAIMED_AT)}

\* C16: when claimed events of a shift tie on the minimum claimed_at, the
\* first claim is the tied event that comes first in the input, whatever the
\* rows of the other shifts are; here for shifts whose claimed events all
\* carry an is_verified value.
C16_TieBreakIsInputOrder ==
    (Resolved /\ "IS_VERIFIED" \in columns) =>
        \A s \in DOMAIN first_claims :
            (\A i \in claims(df, s) : notna(df[i].IS_VERIFIED))
            => first_claims[s].IS_VERIFIED =
                   Val(df[Min(earliest_claims(s))].IS_VERIFIED)

-----------------------------------------------------------------------------
(* Properties of the margin by latency *)

\* The margins, charge rate less pay rate, of the claimed events in bucket k.
claimed_margins(k) ==
    {i \in DOMAIN df_final :
        /\ df_final[i].CLAIMED /\ viewed_in(df_final[i], k)
        /\ notna(df_final[i].CHARGE_RATE) /\ notna(df_final[i].PAY_RATE)}

\* C19: the margin by latency has one value for each of the 30 buckets of
\* [0, 720) hours, the average over the bucket's claimed events however few
\* they are, and 0 for a bucket without any; no bucket is left out.
C19_EveryBucketHasAValue ==
    Reported({"7b"}) =>
        /\ DOMAIN report.claimed_pm_avg = hour_bins
        /\ DOMAIN report.unclaimed_pm_avg = hour_bins
        /\ \A k \in hour_bins :
              LET S == claimed_margins(k)
                  total == sum_by([i \in S |->
                               Some(Val(df_final[i].CHARGE_RATE)
                                        - Val(df_final[i].PAY_RATE))], S)
              IN  report.claimed_pm_avg[k].num * Cardinality(S)
                      = total * report.claimed_pm_avg[k].den

-----------------------------------------------------------------------------
(* Properties of the time of day; hours are counted in minutes *)

\* Start, duration, start-hour and end-hour of a row of the time-of-day report.
day_bar(r) ==
    <<Val(r.SHIFT_START_AT), Val(r.DURATION) * 60, Val(r.START_HOUR), Val(r.END_HOUR)>>

\* The rows behind the bars of the time-of-day report that have a start and a
\* duration: without one of them the shift has no end.
day_bars ==
    {day_bar(report.claimed[i]) :
        i \in {j \in DOMAIN report.claimed :
                  /\ notna(report.claimed[j].SHIFT_START_AT)
                  /\ notna(report.claimed[j].DURATION)
                  /\ notna(report.claimed[j].END_HOUR)}}
        \cup {day_bar(report.merged_unclaimed[s]) :
                  s \in {t \in DOMAIN report.merged_unclaimed :
                            /\ notna(report.merged_unclaimed[t].SHIFT_START_AT)
                            /\ notna(report.merged_unclaimed[t].DURATION)
                            /\ notna(report.merged_unclaimed[t].END_HOUR)}}

\* Every row with a start and a duration has an end-hour.
has_end(r) == (notna(r.SHIFT_START_AT) /\ notna(r.DURATION)) => notna(r.END_HOUR)

\* C20: start-hour and end-hour are the times of day of the shift's start and
\* end, end-hour raised by 24 exactly when it is <= start-hour; then
\* start-hour < end-hour <= start-hour + 24, and end-hour - start-hour is the
\* duration when that is more than 0 and less than 24 hours.
C20_OvernightSpan ==
    Reported({"5"}) =>
        /\ \A i \in DOMAIN report.claimed : has_end(report.claimed[i])
        /\ \A t \in DOMAIN report.merged_unclaimed : has_end(report.merged_unclaimed[t])
        /\ \A b \in day_bars :
              LET s == b[1] % (24 * 60)
                  e == (b[1] + b[2]) % (24 * 60)
              IN  /\ b[3] = s
                  /\ b[4] = IF e <= s THEN e + 24 * 60 ELSE e
                  /\ b[3] < b[4] /\ b[4] <= b[3] + 24 * 60
                  /\ (0 < b[2] /\ b[2] < 24 * 60) => b[4] - b[3] = b[2]

\* An 8-hour shift that starts at 20:40 ends at 04:40: end-hour is 28:40.
C20_Witness ==
    /\ Reported({"5"})
    /\ \E b \in day_bars :
          /\ b[2] = 8 * 60
          /\ b[3] = 20 * 60 + 40
          /\ b[4] = 28 * 60 + 40
    /\ \E b \in day_bars : b[2] = 8 * 60 /\ b[4] < 24 * 60

-----------------------------------------------------------------------------
(* Properties of the first-claim view recomputed over the clean cohort *)

\* C21: in the first-claim view recomputed over the clean cohort every claimed
\* shift has a first claim that worked, the count of first claimers who did
\* not work is 0, and the first claim of each retained claimed shift is the
\* one of the view computed over the full event table.
C21_RecomputedViewAllWorked ==
    pc = "done" =>
        /\ DOMAIN first_claims_final = {s \in unique(df_final) : claims(df_final, s) # {}}
        /\ FinalStats(df_final, first_claims_final, df).num_first_claims_not_worked_final = 0
        /\ \A s \in DOMAIN first_claims_final :
              /\ first_claims_final[s].IS_VERIFIED
              /\ first_claims_final[s] = first_claims[s]

-----------------------------------------------------------------------------
(* Properties of the claimed-versus-unclaimed totals *)

\* The shifts behind the unclaimed total of report 1a or 1b.
unclaimed_total_shifts ==
    IF report.name = "1a" THEN DOMAIN report.merged_unclaimed
    ELSE report.unclaimed_shifts

\* The ways to take one event of each shift of S.
one_event_each(S) ==
    {pick \in [S -> DOMAIN df_final] : \A s \in S : pick[s] \in events(df_final, s)}

\* C22: every shift of the clean cohort is in exactly one of the claimed and
\* the unclaimed total of reports 1a and 1b, and enters it once, with the
\* charge_rate, pay_rate and duration of one of its events, however many
\* view and claim events it has.
C22_OncePerShift ==
    /\ Reported({"1a", "1b"}) =>
          /\ report.claimed_shifts \cap unclaimed_total_shifts = {}
          /\ report.claimed_shifts \cup unclaimed_total_shifts = unique(df_final)
    /\ Reported({"1a"}) =>
          \E pick \in one_event_each(report.claimed_shifts) :
              report.claimed_profit =
                  sum_by([s \in report.claimed_shifts |->
                             profit(df_final[pick[s]].CHARGE_RATE,
                                    df_final[pick[s]].PAY_RATE,
                                    df_final[pick[s]].DURATION)],
                         report.claimed_shifts)
    /\ Reported({"1b"}) =>
          /\ \E pick \in one_event_each(report.claimed_shifts) :
                report.claimed_hours =
                    sum_by([s \in report.claimed_shifts |-> df_final[pick[s]].DURATION],
                           report.claimed_shifts)
          /\ \E pick \in one_event_each(report.unclaimed_shifts) :
                report.unclaimed_hours =
                    sum_by([s \in report.unclaimed_shifts |-> df_final[pick[s]].DURATION],
                           report.unclaimed_shifts)

-----------------------------------------------------------------------------
(* Properties of the latency buckets per shift *)

viewed_events(s) == {i \in events(df_final, s) : notna(df_final[i].OFFER_VIEWED_AT)}

\* The event of shift s with the earliest offer view.
first_view(s) ==
    CHOOSE i \in viewed_events(s) :
        \A j \in viewed_events(s) :
            Val(df_final[i].OFFER_VIEWED_AT) <= Val(df_final[j].OFFER_VIEWED_AT)

\* The shifts whose first view falls in bucket k.
first_viewed_in(k) ==
    {s \in unique(df_final) :
        viewed_events(s) # {} /\ viewed_in(df_final[first_view(s)], k)}

\* C23: a shift is counted in at most one bucket, the one of the hours between
\* its first offer view and its start, so the distinct-shift counts of all
\* buckets add up to the number of shifts with a first-view latency in
\* [0, 720) hours.
C23_OneBucketPerShift ==
    Reported({"7a"}) =>
        /\ sum_by([k \in hour_bins |-> Some(report.total_counts[k])], hour_bins)
               = Cardinality(UNION {first_viewed_in(k) : k \in hour_bins})
        /\ \A k \in hour_bins :
              report.total_counts[k] = Cardinality(first_viewed_in(k))

-----------------------------------------------------------------------------
(* Properties of the day labels *)

\* The day labels of the buckets in the claim-percentage report and in the
\* margin report over the clean cohort.
labels_7a == IF report.name = "7a" THEN report.bucket_labels
             ELSE report_7a(df_final).bucket_labels

labels_7b == IF report.name = "7b" THEN report.labels_29
             ELSE report_7b(df_final).labels_29

\* C24: a day label stands for the same 24-hour interval in both latency
\* reports: the bucket shown under a label in 7a and the bucket shown under
\* that label in 7b are the same bucket.
C24_SameLabelSameBucket ==
    Reported({"7a", "7b"}) =>
        \A k \in DOMAIN labels_7a :
            \A j \in DOMAIN labels_7b :
                labels_7a[k] = labels_7b[j] => k = j

====
